---------------------------- MODULE Spec2Model ----------------------------
(***************************************************************************)
(* A model of the PDF B5 resizer (src/main.py): the page-fit geometry of   *)
(* resize_pdf_to_b5 in rounded binary floating point, and the MainWindow   *)
(* shell (browse, drop, output name, run) over a small file system.        *)
(***************************************************************************)
EXTENDS Integers, Sequences, FiniteSets, TLC

(***************************************************************************)
(* Binary floating point.  Python's float is IEEE-754 binary64: every      *)
(* division, multiplication, subtraction and addition of the geometry is   *)
(* rounded to the nearest representable value, ties to even.  The model    *)
(* keeps that rounding and shortens the significand to Prec bits so that   *)
(* the arithmetic fits TLC's integers.  A float is [m, e], the           *)
(* value m * 2^e, with m = 0 or 2^(Prec-1) <= |m| < 2^Prec.                *)
(***************************************************************************)
Prec == 10

RECURSIVE BitLen(_)
BitLen(a) == IF a = 0 THEN 0 ELSE 1 + BitLen(a \div 2)

Abs(n) == IF n < 0 THEN -n ELSE n

Sgn(n) == IF n < 0 THEN -1 ELSE IF n = 0 THEN 0 ELSE 1

FZero == [m |-> 0, e |-> 0]

\* q plus one when the remainder r of the cut exceeds half, or equals half
\* with q odd (round half to even).
HalfEven(q, r, half) == IF r > half \/ (r = half /\ q % 2 = 1) THEN q + 1 ELSE q

\* The float of sign sg and significand q1 <= 2^Prec at exponent e.
Carry(sg, q1, e) ==
    IF q1 = 2^Prec THEN [m |-> sg * 2^(Prec - 1), e |-> e + 1]
    ELSE [m |-> sg * q1, e |-> e]

\* The float nearest to sg * a * 2^e, where a > 0 has Prec + k bits.
Norm(sg, a, k, e) ==
    IF k <= 0 THEN [m |-> sg * a * 2^(-k), e |-> e + k]
    ELSE Carry(sg, HalfEven(a \div 2^k, a % 2^k, 2^(k - 1)), e + k)

\* The float nearest to n * 2^e (round half to even).
Round(n, e) ==
    IF n = 0 THEN FZero ELSE Norm(Sgn(n), Abs(n), BitLen(Abs(n)) - Prec, e)

\* int -> float
FInt(n) == Round(n, 0)

\* x / y for x >= 0, y > 0: the quotient to Prec + 3 bits, a sticky bit for
\* the remainder, then rounded.
FDiv(x, y) ==
    IF x.m = 0 THEN FZero
    ELSE LET t == x.m * 2^(Prec + 2)
             q == t \div y.m
             s == IF t % y.m = 0 THEN 0 ELSE 1
         IN  Round(2 * q + s, x.e - y.e - (Prec + 2) - 1)

\* A decimal literal n/d (25.4 is 254/10): the float nearest to it.
FLit(n, d) == FDiv(FInt(n), FInt(d))

FMul(x, y) == Round(x.m * y.m, x.e + y.e)

FNeg(x) == [m |-> -x.m, e |-> x.e]

\* x + y: exact on the common exponent when the exponents are close; when
\* they are more than Prec + 3 apart the smaller operand only decides the
\* rounding direction (a sticky bit).
FAdd(x, y) ==
    IF x.m = 0 THEN y
    ELSE IF y.m = 0 THEN x
    ELSE LET hi == IF x.e >= y.e THEN x ELSE y
             lo == IF x.e >= y.e THEN y ELSE x
             d  == hi.e - lo.e
         IN  IF d <= Prec + 3
             THEN Round(hi.m * 2^d + lo.m, lo.e)
             ELSE Round(hi.m * 2^(Prec + 3) + Sgn(lo.m), hi.e - (Prec + 3))

FSub(x, y) == FAdd(x, FNeg(y))

FHalf(x) == IF x.m = 0 THEN FZero ELSE [m |-> x.m, e |-> x.e - 1]

\* Exact comparison of two floats (or of any two dyadic values [m, e]).
DCmp(x, y) ==
    IF x.m = 0 \/ y.m = 0 \/ Sgn(x.m) # Sgn(y.m)
    THEN Sgn(Sgn(x.m) - Sgn(y.m))
    ELSE LET lx == BitLen(Abs(x.m)) + x.e
             ly == BitLen(Abs(y.m)) + y.e
         IN  IF lx # ly
             THEN Sgn(x.m) * Sgn(lx - ly)
             ELSE LET lo == IF x.e <= y.e THEN x.e ELSE y.e
                  IN  Sgn(x.m * 2^(x.e - lo) - y.m * 2^(y.e - lo))

FLeq(x, y) == DCmp(x, y) <= 0

FEq(x, y) == DCmp(x, y) = 0

\* Python's min(a, b): b if b < a, else a.
FMin(a, b) == IF DCmp(b, a) < 0 THEN b ELSE a

\* Exact difference x - y of two values of close exponents (no rounding):
\* used to state properties, never by the program.
DSub(x, y) ==
    LET ex == IF x.m = 0 THEN y.e ELSE x.e
        ey == IF y.m = 0 THEN x.e ELSE y.e
        lo == IF ex <= ey THEN ex ELSE ey
    IN  [m |-> x.m * 2^(ex - lo) - y.m * 2^(ey - lo), e |-> lo]

DAbs(x) == [m |-> Abs(x.m), e |-> x.e]

\* One unit in the last place of the float x.
Ulp(x) == [m |-> 1, e |-> x.e]

(***************************************************************************)
(* The target size (src/main.py lines 14-16).                              *)
(***************************************************************************)
B5_W_MM == 182

B5_H_MM == 257

MM_TO_PT == FDiv(FInt(72), FLit(254, 10))

B5_W_PT == FMul(FInt(B5_W_MM), MM_TO_PT)

B5_H_PT == FMul(FInt(B5_H_MM), MM_TO_PT)

(***************************************************************************)
(* The fit of one source page (lines 24-28 of resize_pdf_to_b5): the       *)
(* scale s, the scaled size (dw, dh), the offsets (x0, y0) and the         *)
(* destination rectangle fitz.Rect(x0, y0, x0 + dw, y0 + dh).              *)
(***************************************************************************)
\* Line 28: fitz.Rect(x0, y0, x0 + dw, y0 + dh).
FitRect(s, dw, dh, x0, y0) ==
    [s |-> s, dw |-> dw, dh |-> dh, x0 |-> x0, y0 |-> y0,
     dest |-> [x0 |-> x0, y0 |-> y0, x1 |-> FAdd(x0, dw), y1 |-> FAdd(y0, dh)]]

\* FitPlaced with the halving of line 27 forgotten.
FitPlacedUnhalved(s, dw, dh) ==
    FitRect(s, dw, dh, FSub(B5_W_PT, dw), FSub(B5_H_PT, dh))

\* Line 27: x0, y0 = (B5_W_PT - dw) / 2, (B5_H_PT - dh) / 2.
FitPlaced(s, dw, dh) ==
    FitRect(s, dw, dh, FHalf(FSub(B5_W_PT, dw)), FHalf(FSub(B5_H_PT, dh)))

\* Line 26: dw, dh = r.width * s, r.height * s.
FitScaled(r, s) == FitPlaced(s, FMul(r.width, s), FMul(r.height, s))

\* Fit with max for the min of line 25.
FitMax(r) ==
    FitScaled(r, IF DCmp(FDiv(B5_H_PT, r.height), FDiv(B5_W_PT, r.width)) > 0
                 THEN FDiv(B5_H_PT, r.height) ELSE FDiv(B5_W_PT, r.width))

\* Line 25: s = min(B5_W_PT / r.width, B5_H_PT / r.height).
Fit(r) == FitScaled(r, FMin(FDiv(B5_W_PT, r.width), FDiv(B5_H_PT, r.height)))

(***************************************************************************)
(* Paths, names and texts.  A path is [dir, stem, ext]: pathlib's parent,  *)
(* stem and suffix.  The text of the output name field is [pad, stem,      *)
(* ext]: pad says that white space surrounds the name (str.strip removes   *)
(* it).  An empty line edit is EmptyText / EmptyName.                      *)
(***************************************************************************)
EmptyText == [dir |-> "", stem |-> "", ext |-> ""]

EmptyName == [pad |-> FALSE, stem |-> "", ext |-> ""]

\* Path(u.toLocalFile()) of a URL that is no local file: Path("") is ".".
Cwd == [dir |-> ".", stem |-> "", ext |-> ""]

\* str.lower() on the suffixes of the model.
Lower(ext) == IF ext = ".PDF" THEN ".pdf" ELSE ext

\* Path.exists()
Exists(p, files) == p = Cwd \/ p \in DOMAIN files

\* bool(text) of the output name field is False
IsEmpty(t) == ~t.pad /\ t.stem = "" /\ t.ext = ""

\* str.strip()
Strip(t) == [pad |-> FALSE, stem |-> t.stem, ext |-> t.ext]

\* The stems of the model that hold a path separator.
SepStems == {"sub/c"}

\* Path.with_name(name) raises ValueError for a name with a separator.
NameRaises(n) == n.stem \in SepStems

with_name(p, n) == [dir |-> p.dir, stem |-> n.stem, ext |-> n.ext]

\* size_combo.currentData()[0]: the one item of the combo box (line 77).
Label == "B5"

\* f"{stem}_{label}.pdf" (lines 124 and 139)
DefaultName(stem) == [pad |-> FALSE, stem |-> stem \o "_" \o Label, ext |-> ".pdf"]

(***************************************************************************)
(* Files and documents.  A file is [kind, pages]: kind "pdf" with its      *)
(* pages, or "data" (no PDF: fitz.open raises).  A page is [width, height, *)
(* body].                                                                  *)
(***************************************************************************)
MaxPages == 2

MaxDepth == 1

A4 == [width |-> FInt(595), height |-> FInt(842)]

LetterL == [width |-> FInt(792), height |-> FInt(612)]

SrcPage(size, n) ==
    [width |-> size.width, height |-> size.height, body |-> [kind |-> "content", n |-> n]]

\* The document of n pages whose sizes alternate, the first of size `first`.
DocOf(first, n) ==
    [kind |-> "pdf",
     pages |-> [i \in 1..n |->
                  SrcPage(IF (i % 2 = 1) = (first = 1) THEN A4 ELSE LetterL, i)]]

\* The documents of up to MaxPages pages: empty, of one size, of mixed sizes.
Docs == { DocOf(first, n) : first \in {1, 2}, n \in 0..MaxPages }

\* How many times the page has been through resize_pdf_to_b5.
RECURSIVE Depth(_)
Depth(page) == IF page.body.kind = "content" THEN 0 ELSE 1 + Depth(page.body.page)

\* The depth of the file at path p (0 for no file, no PDF, no page).
FileDepth(p, files) ==
    IF p \in DOMAIN files /\ files[p].kind = "pdf" /\ Len(files[p].pages) > 0
    THEN Depth(files[p].pages[1]) ELSE 0

DataFile == [kind |-> "data", pages |-> <<>>]

\* NewPage with the size of the source page for the target size of line 23.
NewPageSourceSize(src, i) ==
    [width |-> src[i].width, height |-> src[i].height,
     body |-> [kind |-> "shown", dest |-> Fit(src[i]).dest,
               pno |-> i - 1, page |-> src[(i - 1) + 1]]]

\* Lines 23-29 for the source page of index i (sp.number = i - 1): a new page
\* of the target size showing page sp.number of src in the fitted rectangle.
NewPage(src, i) ==
    [width |-> B5_W_PT, height |-> B5_H_PT,
     body |-> [kind |-> "shown", dest |-> Fit(src[i]).dest,
               pno |-> i - 1, page |-> src[(i - 1) + 1]]]

\* What the environment lets dst.save do: write the file, or refuse it
\* (permission, disk full, invalid path).
SaveOutcomes == {"ok", "denied"}

\* Document.save (line 30).  PyMuPDF refuses a document without pages
\* (ValueError: cannot save with zero pages) before it touches the file.
Save(pages, output_path, files, env) ==
    IF Len(pages) = 0 THEN [error |-> "ZeroPages", files |-> files]
    ELSE IF env = "ok"
    THEN [error |-> "none",
          files |-> (output_path :> [kind |-> "pdf", pages |-> pages]) @@ files]
    ELSE [error |-> "SaveError", files |-> files]

\* resize_pdf_to_b5 (lines 19-30): the error it raises ("none": it returned),
\* the document it opened and the files afterwards.
Resized(src, sv) == [error |-> sv.error, src |-> src, files |-> sv.files]

resize_pdf_to_b5(input_path, output_path, files, env) ==
    IF input_path \notin DOMAIN files
    THEN [error |-> "FileNotFound", src |-> <<>>, files |-> files]
    ELSE IF files[input_path].kind # "pdf"
    THEN [error |-> "FileDataError", src |-> <<>>, files |-> files]
    ELSE Resized(files[input_path].pages,
                 Save([i \in 1..Len(files[input_path].pages) |->
                          NewPage(files[input_path].pages, i)],
                      output_path, files, env))

(***************************************************************************)
(* The shell: MainWindow and DropArea.                                     *)
(***************************************************************************)
VARIABLES
    fs,                \* the files on disk: path -> file
    input_edit,        \* MainWindow.input_edit.text(): a path, or EmptyText
    output_name_edit,  \* MainWindow.output_name_edit.text()
    shown,             \* the message boxes the latest handler showed, in order
    last,              \* the latest step: its inputs and what it called
    edited             \* the user has typed in the output name field

vars == <<fs, input_edit, output_name_edit, shown, last, edited>>

MaxDrop == 2

Msg(box, id, path, err) == [box |-> box, id |-> id, path |-> path, err |-> err]

\* QMessageBox.warning, line 130
MsgNoInput == Msg("warning", "no_input", EmptyText, "")

\* QMessageBox.critical, line 134
MsgInvalid == Msg("critical", "invalid_input", EmptyText, "")

\* QMessageBox.question, lines 144-145
MsgOverwrite(out_path) == Msg("question", "overwrite", out_path, "")

\* QMessageBox.critical, line 152: the text carries the error
MsgFailed(err) == Msg("critical", "failed", EmptyText, err)

\* QMessageBox.information, line 155: the text carries the output path
MsgSaved(out_path) == Msg("information", "saved", out_path, "")

NoCall == [made |-> FALSE, input |-> EmptyText, output |-> EmptyText,
           src |-> <<>>, error |-> "none"]

Step(op, answer, env, call, raised) ==
    [op |-> op, answer |-> answer, env |-> env, call |-> call, raised |-> raised]

\* refresh_default_output (lines 117-126): the output name field afterwards.
refresh_default_output(inText, outText) ==
    IF inText = EmptyText THEN outText
    ELSE IF IsEmpty(outText) THEN DefaultName(inText.stem)
    ELSE outText

\* set_input_file (lines 113-115): both fields afterwards.
set_input_file(p, outText) ==
    [input |-> p, output |-> refresh_default_output(p, outText)]

\* dragEnterEvent (lines 45-47): the drag is accepted.
dragEnterEvent(urls) ==
    Len(urls) > 0 /\ \E i \in 1..Len(urls) : Lower(urls[i].ext) = ".pdf"

\* Qualifies without the p.exists() of line 52.
QualifiesAnyPdf(p, files) == Lower(p.ext) = ".pdf"

\* The test of line 52.
Qualifies(p, files) == Lower(p.ext) = ".pdf" /\ Exists(p, files)

\* The loop of dropEvent (lines 50-54) from item i on: the index of the item
\* handed to on_file_dropped, 0 when the loop ends without one.
RECURSIVE DropLoop(_, _, _)
DropLoop(urls, i, files) ==
    IF i > Len(urls) THEN 0
    ELSE IF Qualifies(urls[i], files) THEN i
    ELSE DropLoop(urls, i + 1, files)

\* dropEvent (lines 49-54): both fields afterwards.
dropEvent(urls, inText, outText, files) ==
    LET i == DropLoop(urls, 1, files)
    IN  IF i = 0 THEN [input |-> inText, output |-> outText]
        ELSE set_input_file(urls[i], outText)

\* Both fields after a drag of urls over the DropArea and its drop.
DropResult(urls, inText, outText, files) ==
    IF dragEnterEvent(urls) THEN dropEvent(urls, inText, outText, files)
    ELSE [input |-> inText, output |-> outText]

\* Validate without the in_path.exists() of line 133.
ValidateSuffixOnly(inText, files) ==
    IF inText = EmptyText THEN <<MsgNoInput>>
    ELSE IF Lower(inText.ext) # ".pdf" THEN <<MsgInvalid>>
    ELSE <<>>

\* The validation of run (lines 129-135): the message it shows, or none.
Validate(inText, files) ==
    IF inText = EmptyText THEN <<MsgNoInput>>
    ELSE IF ~Exists(inText, files) \/ Lower(inText.ext) # ".pdf" THEN <<MsgInvalid>>
    ELSE <<>>

\* Lines 138-139: the output name of run.
OutName(inText, outText) ==
    IF IsEmpty(Strip(outText)) THEN DefaultName(inText.stem) ELSE Strip(outText)

\* Declined with the answer of line 146 ignored.
DeclinedNever(out_path, files, answer) == FALSE

\* Lines 143-147: run returns because the user did not answer Yes.
Declined(out_path, files, answer) == Exists(out_path, files) /\ answer # "Yes"

\* Report without the return of line 153.
ReportFallsThrough(err, out_path) ==
    IF err # "none" THEN <<MsgFailed(err), MsgSaved(out_path)>>
    ELSE <<MsgSaved(out_path)>>

\* Lines 149-155: the boxes shown after resize_pdf_to_b5 raised err or returned.
Report(err, out_path) ==
    IF err # "none" THEN <<MsgFailed(err)>> ELSE <<MsgSaved(out_path)>>

\* Lines 149-155: what run leaves after resize_pdf_to_b5 ended as r.
Called(inText, out_path, asked, r) ==
    [shown  |-> asked \o Report(r.error, out_path),
     call   |-> [made |-> TRUE, input |-> inText, output |-> out_path,
                 src |-> r.src, error |-> r.error],
     files  |-> r.files,
     raised |-> FALSE]

\* Lines 143-155: run from the overwrite question on.
Confirmed(inText, out_path, asked, files, answer, env) ==
    IF Declined(out_path, files, answer)
    THEN [shown |-> asked, call |-> NoCall, files |-> files, raised |-> FALSE]
    ELSE Called(inText, out_path, asked,
                resize_pdf_to_b5(inText, out_path, files, env))

\* run (lines 128-155) as a function of the fields, the files, the user's answer
\* to the overwrite question and the environment of the save.
RunResult(inText, outText, files, answer, env) ==
    IF Validate(inText, files) # <<>>
    THEN [shown |-> Validate(inText, files), call |-> NoCall, files |-> files,
          raised |-> FALSE]
    ELSE IF NameRaises(OutName(inText, outText))
    THEN [shown |-> <<>>, call |-> NoCall, files |-> files, raised |-> TRUE]
    ELSE Confirmed(inText, with_name(inText, OutName(inText, outText)),
                   IF Exists(with_name(inText, OutName(inText, outText)), files)
                   THEN <<MsgOverwrite(with_name(inText, OutName(inText, outText)))>>
                   ELSE <<>>,
                   files, answer, env)

Answers == {"Yes", "No"}

\* What the user may type into the output name field.
UserTexts ==
    { [pad |-> TRUE, stem |-> "",      ext |-> ""],
      [pad |-> TRUE, stem |-> "a",     ext |-> ".pdf"],
      [pad |-> TRUE, stem |-> "sub/c", ext |-> ".pdf"] }

PA == [dir |-> "d1", stem |-> "a", ext |-> ".pdf"]

PN == [dir |-> "d1", stem |-> "n", ext |-> ".txt"]

PX == [dir |-> "d2", stem |-> "x", ext |-> ".PDF"]

\* What may be dragged onto the drop area.
DropItems == {PA, PX, PN}

\* A drag carries up to MaxDrop different items.
DropSeqs ==
    UNION { { u \in [1..n -> DropItems] : \A i, j \in 1..n : u[i] = u[j] => i = j } :
            n \in 1..MaxDrop }

Init ==
    /\ \E doc \in Docs :
         fs = (PA :> doc) @@ (PN :> DataFile) @@ (PX :> DataFile)
    /\ input_edit = EmptyText
    /\ output_name_edit = EmptyName
    /\ shown = <<>>
    /\ last = Step("init", "none", "none", NoCall, FALSE)
    /\ edited = FALSE

\* browse_input (lines 107-111): the dialog returns an existing file, or ""
\* when it is cancelled.
browse_input ==
    \E path \in DOMAIN fs \cup {EmptyText} :
        LET r == IF path # EmptyText
                 THEN set_input_file(path, output_name_edit)
                 ELSE [input |-> input_edit, output |-> output_name_edit]
        IN  /\ input_edit' = r.input
            /\ output_name_edit' = r.output
            /\ shown' = <<>>
            /\ last' = Step("browse", "none", "none", NoCall, FALSE)
            /\ UNCHANGED <<fs, edited>>

\* A drop on the DropArea: dropEvent is delivered when dragEnterEvent accepted.
drop ==
    \E urls \in DropSeqs :
        /\ input_edit' = DropResult(urls, input_edit, output_name_edit, fs).input
        /\ output_name_edit' = DropResult(urls, input_edit, output_name_edit, fs).output
        /\ shown' = <<>>
        /\ last' = Step("drop", "none", "none", NoCall, FALSE)
        /\ UNCHANGED <<fs, edited>>

\* The user types into output_name_edit (line 81: an editable QLineEdit).
edit_output_name ==
    \E t \in UserTexts :
        /\ output_name_edit' = t
        /\ edited' = TRUE
        /\ shown' = <<>>
        /\ last' = Step("edit", "none", "none", NoCall, FALSE)
        /\ UNCHANGED <<fs, input_edit>>

\* The state after run ended as r.  The step records the answer only when the
\* question was asked, and the environment only when the save was reached.
Ran(r, answer, env) ==
    /\ fs' = r.files
    /\ shown' = r.shown
    /\ last' = Step("run",
                    IF Len(r.shown) > 0 /\ r.shown[1].id = "overwrite"
                    THEN answer ELSE "none",
                    IF r.call.made /\ r.call.error \notin {"FileNotFound", "FileDataError"}
                    THEN env ELSE "none",
                    r.call, r.raised)
    /\ UNCHANGED <<input_edit, output_name_edit, edited>>

\* run (lines 128-155), the handler of the run button.  The model stops
\* resizing documents that have been resized MaxDepth times.
run ==
    /\ FileDepth(input_edit, fs) < MaxDepth
    /\ \E answer \in Answers, env \in SaveOutcomes :
         Ran(RunResult(input_edit, output_name_edit, fs, answer, env), answer, env)

\* The selected input file is removed from outside the program.
file_removed ==
    /\ input_edit \in DOMAIN fs
    /\ fs' = [p \in DOMAIN fs \ {input_edit} |-> fs[p]]
    /\ last' = Step("removed", "none", "none", NoCall, FALSE)
    /\ UNCHANGED <<input_edit, output_name_edit, shown, edited>>

Next == browse_input \/ drop \/ edit_output_name \/ run \/ file_removed

Spec == Init /\ [][Next]_vars

(***************************************************************************)
(* The fit alone: one document of one page of any size of FitDims x        *)
(* FitDims is selected, and run is pressed.                                *)
(***************************************************************************)
FitDims == { FInt(n) : n \in {1, 4, 88, 320, 581, 595, 612, 726, 792, 842} }

FitInit ==
    /\ \E w \in FitDims, h \in FitDims :
         fs = (PA :> [kind |-> "pdf",
                      pages |-> <<SrcPage([width |-> w, height |-> h], 1)>>])
    /\ input_edit = PA
    /\ output_name_edit = DefaultName(PA.stem)
    /\ shown = <<>>
    /\ last = Step("browse", "none", "none", NoCall, FALSE)
    /\ edited = FALSE

FitSpec == FitInit /\ [][run]_vars

(***************************************************************************)
(* Properties.                                                             *)
(***************************************************************************)
\* run has called resize_pdf_to_b5, and the document opened.
Opened ==
    /\ last.op = "run"
    /\ last.call.made
    /\ last.call.error \notin {"FileNotFound", "FileDataError"}

\* run has called resize_pdf_to_b5, and it returned.
Returned == last.op = "run" /\ last.call.made /\ last.call.error = "none"

\* The file `out` holds, page for page and in order, the pages of src as shown
\* by resize_pdf_to_b5.
SamePages(out, src) ==
    /\ out.kind = "pdf"
    /\ Len(out.pages) = Len(src)
    /\ \A i \in 1..Len(src) :
         /\ out.pages[i].body.kind = "shown"
         /\ out.pages[i].body.pno = i - 1
         /\ out.pages[i].body.page = src[i]

\* C1: for every input document of 0, 1 or N pages, resize_pdf_to_b5 completes
\* (when the environment lets the save through) and the saved output has as many
\* pages as the input, output page i made from input page i.
C1_PagesPreserved ==
    (Opened /\ last.env = "ok") =>
        /\ last.call.error = "none"
        /\ last.call.output \in DOMAIN fs
        /\ SamePages(fs[last.call.output], last.call.src)

\* C1, for the documents that have pages: whenever resize_pdf_to_b5 returned,
\* the saved output has the pages of the input in order.
C1_PagesPreservedWhenReturned ==
    Returned =>
        /\ last.call.output \in DOMAIN fs
        /\ SamePages(fs[last.call.output], last.call.src)

\* C2: every page of the output document has exactly the size
\* (B5_W_PT, B5_H_PT), whatever the size of its source page.
C2_OutputPagesAreB5 ==
    Returned =>
        \A i \in 1..Len(fs[last.call.output].pages) :
            /\ fs[last.call.output].pages[i].width = B5_W_PT
            /\ fs[last.call.output].pages[i].height = B5_H_PT

\* C2 witness: a document with two pages of different widths has been resized.
C2_Witness ==
    /\ Returned
    /\ Len(last.call.src) = 2
    /\ last.call.src[1].width # last.call.src[2].width
    /\ Len(fs[last.call.output].pages) = 2

\* x <= y + eps, for eps >= 0.
WithinAbove(x, y, eps) == DCmp(DSub(x, y), eps) <= 0

\* |x - y| <= eps
Near(x, y, eps) == DCmp(DAbs(DSub(x, y)), eps) <= 0

\* C3 as stated: the scaled size of every source page is at most the target size
\* on both axes and equal to it on at least one.
C3_FitExact ==
    Opened =>
        \A i \in 1..Len(last.call.src) :
            /\ FLeq(Fit(last.call.src[i]).dw, B5_W_PT)
            /\ FLeq(Fit(last.call.src[i]).dh, B5_H_PT)
            /\ \/ FEq(Fit(last.call.src[i]).dw, B5_W_PT)
               \/ FEq(Fit(last.call.src[i]).dh, B5_H_PT)

\* C3 as amended: the scaled size of every source page exceeds the target size
\* on neither axis by more than one unit in the last place of the target, and
\* is within one unit in the last place of it on at least one axis.
C3_FitWithinUlp ==
    Opened =>
        \A i \in 1..Len(last.call.src) :
            /\ WithinAbove(Fit(last.call.src[i]).dw, B5_W_PT, Ulp(B5_W_PT))
            /\ WithinAbove(Fit(last.call.src[i]).dh, B5_H_PT, Ulp(B5_H_PT))
            /\ \/ Near(Fit(last.call.src[i]).dw, B5_W_PT, Ulp(B5_W_PT))
               \/ Near(Fit(last.call.src[i]).dh, B5_H_PT, Ulp(B5_H_PT))

\* C3 witness: a page has been resized whose scaled size exceeds the target on
\* one axis (by rounding).
C3_Witness ==
    /\ Returned
    /\ \E i \in 1..Len(last.call.src) :
         \/ DCmp(Fit(last.call.src[i]).dw, B5_W_PT) > 0
         \/ DCmp(Fit(last.call.src[i]).dh, B5_H_PT) > 0

\* The destination rectangles of the pages of the latest output.
Dests == { fs[last.call.output].pages[i].body.dest :
             i \in 1..Len(fs[last.call.output].pages) }

\* C4 as stated: every destination rectangle has offsets >= 0, lies inside the
\* target page, and has equal margins left and right, top and bottom.
C4_CenteredExact ==
    Returned =>
        \A d \in Dests :
            /\ FLeq(FZero, d.x0) /\ FLeq(FZero, d.y0)
            /\ FLeq(d.x1, B5_W_PT) /\ FLeq(d.y1, B5_H_PT)
            /\ FEq(d.x0, DSub(B5_W_PT, d.x1))
            /\ FEq(d.y0, DSub(B5_H_PT, d.y1))

\* C4 as amended: the offsets are >= 0, the rectangle lies inside the target page
\* and the opposite margins are equal, each up to one unit in the last place of
\* the target dimension.
C4_CenteredWithinUlp ==
    Returned =>
        \A d \in Dests :
            /\ WithinAbove(FZero, d.x0, Ulp(B5_W_PT))
            /\ WithinAbove(FZero, d.y0, Ulp(B5_H_PT))
            /\ WithinAbove(d.x1, B5_W_PT, Ulp(B5_W_PT))
            /\ WithinAbove(d.y1, B5_H_PT, Ulp(B5_H_PT))
            /\ Near(d.x0, DSub(B5_W_PT, d.x1), Ulp(B5_W_PT))
            /\ Near(d.y0, DSub(B5_H_PT, d.y1), Ulp(B5_H_PT))

\* C4 witness: a page has been placed with a negative offset (by rounding).
C4_Witness ==
    /\ Returned
    /\ \E d \in Dests : d.x0.m < 0 \/ d.y0.m < 0

\* The input field is empty, or names no existing file, or no .pdf file.
InputInvalid ==
    \/ input_edit = EmptyText
    \/ input_edit \notin DOMAIN fs
    \/ Lower(input_edit.ext) # ".pdf"

\* C5: run with an empty input field, a path that does not exist or a path
\* without the .pdf extension shows one validation message, does not call
\* resize_pdf_to_b5 and writes no file.
C5_InvalidInputRejected ==
    [][(last'.op = "run" /\ InputInvalid) =>
          /\ fs' = fs
          /\ ~last'.call.made
          /\ shown' = IF input_edit = EmptyText THEN <<MsgNoInput>> ELSE <<MsgInvalid>>]_vars

\* C5 witness: run has rejected a .pdf path that no longer exists.
C5_Witness ==
    /\ last.op = "run"
    /\ input_edit # EmptyText
    /\ Lower(input_edit.ext) = ".pdf"
    /\ input_edit \notin DOMAIN fs
    /\ shown = <<MsgInvalid>>
    /\ ~last.call.made

\* The output path of run (lines 137-141), for a valid input and name.
OutPath == with_name(input_edit, OutName(input_edit, output_name_edit))

\* C6: when the output path exists as run is invoked, the first box is the
\* overwrite question, and unless the answer is Yes nothing else is shown,
\* resize_pdf_to_b5 is not called and the files are as before.
C6_OverwriteConfirmed ==
    [][(/\ last'.op = "run"
        /\ ~InputInvalid
        /\ ~NameRaises(OutName(input_edit, output_name_edit))
        /\ OutPath \in DOMAIN fs) =>
          /\ Len(shown') >= 1
          /\ shown'[1] = MsgOverwrite(OutPath)
          /\ last'.answer \in Answers
          /\ last'.answer # "Yes" =>
                /\ shown' = <<MsgOverwrite(OutPath)>>
                /\ ~last'.call.made
                /\ fs' = fs]_vars

\* C6 witness: the user has declined to overwrite an existing output file.
C6_Witness ==
    /\ last.op = "run"
    /\ last.answer = "No"
    /\ OutPath \in DOMAIN fs
    /\ shown = <<MsgOverwrite(OutPath)>>
    /\ ~last.call.made

\* C7: run leaves the content of the input file as it was, whatever the output
\* name and the answer to the overwrite question.
C7_InputUntouched ==
    [][(last'.op = "run" /\ input_edit \in DOMAIN fs) =>
          /\ input_edit \in DOMAIN fs'
          /\ fs'[input_edit] = fs[input_edit]]_vars

\* C8: an error of resize_pdf_to_b5 does not leave run; the last box then is the
\* failure message carrying the error and no success box is shown; the success
\* box, carrying the output path, is shown exactly when resize_pdf_to_b5 returned.
C8_ErrorsReported ==
    last.op = "run" =>
        /\ last.call.made => ~last.raised /\ Len(shown) >= 1
        /\ (last.call.made /\ last.call.error # "none") =>
              /\ shown[Len(shown)] = MsgFailed(last.call.error)
              /\ \A i \in 1..Len(shown) : shown[i].id # "saved"
        /\ (last.call.made /\ last.call.error = "none") =>
              shown[Len(shown)] = MsgSaved(last.call.output)
        /\ \A i \in 1..Len(shown) :
              shown[i].id = "saved" => last.call.made /\ last.call.error = "none"

\* C8 witness: the save failed and run has shown the failure message.
C8_Witness ==
    /\ last.op = "run"
    /\ last.call.made
    /\ last.call.error = "SaveError"
    /\ shown[Len(shown)] = MsgFailed("SaveError")

\* C9: as long as the user has not edited the output name field, it holds
\* {stem of the selected input}_{label}.pdf.
C9_DefaultFollowsInput ==
    (~edited /\ input_edit # EmptyText) =>
        output_name_edit = DefaultName(input_edit.stem)

\* The indices of the dropped items that have the .pdf extension and exist.
Qualifying(urls) ==
    { i \in 1..Len(urls) : Lower(urls[i].ext) = ".pdf" /\ urls[i] \in DOMAIN fs }

\* C10: whatever is dropped, the input field becomes the first dropped item that
\* has the .pdf extension and exists; when there is none, the input field and
\* the output name field stay as they are.
C10_DropTakesFirstQualifying ==
    \A urls \in DropSeqs :
        IF Qualifying(urls) = {}
        THEN /\ DropResult(urls, input_edit, output_name_edit, fs).input = input_edit
             /\ DropResult(urls, input_edit, output_name_edit, fs).output = output_name_edit
        ELSE \E i \in Qualifying(urls) :
                /\ \A j \in Qualifying(urls) : i <= j
                /\ DropResult(urls, input_edit, output_name_edit, fs).input = urls[i]

\* C10 witness: a drop has put x.PDF into the input field while a.pdf, which
\* can be dragged too, no longer exists.
C10_Witness ==
    /\ last.op = "drop"
    /\ input_edit = PX
    /\ PA \notin DOMAIN fs
    /\ PN \in DOMAIN fs
=============================================================================
